---- MODULE Spec2Model ----
(***************************************************************************)
(* The batch of the BatchProcessor component (src/components/              *)
(* BatchProcessor.tsx): the `images` list and the asynchronous handlers    *)
(* that read and write it: file selection, removal, clear, the transform   *)
(* pass (handleProcessAll / processImage), the editor crop (handleCrop)    *)
(* and the analysis pass (handleAnalyzeWithGemini).                        *)
(*                                                                         *)
(* Every `await` of a handler is a point where other handlers may run, so  *)
(* each handler is cut into one action per stretch of code between two     *)
(* awaits.  Stretches that neither read nor write component state (decode  *)
(* followed by encode, the analysis call followed by the pricing call) are *)
(* merged into the action that ends them.  A closure keeps the `images`    *)
(* array of the render in which the handler was invoked: the pass and the  *)
(* analysis pass iterate over that snapshot, while every setImages(prev => *)
(* ...) is applied to the current list.                                    *)
(*                                                                         *)
(* A raster is modelled by the sequence of transforms applied to the       *)
(* decoded file; an object URL by the raster it points to.  Timestamps of  *)
(* operation entries are left out.  The ids from Math.random() are         *)
(* modelled as distinct for every created item.                            *)
(***************************************************************************)
EXTENDS Integers, Sequences, FiniteSets, TLC

VARIABLES
  images,         \* useState<ImageFile[]>: the batch
  processing,     \* useState(false): the transform pass flag
  analyzing,      \* useState(false): the analysis pass flag
  editingImage,   \* useState<ImageFile | null>: <<>> or <<image>>
  settings,       \* props.settings
  passPc,         \* handleProcessAll: "idle", "working" (awaiting processImage), "sleeping"
  passImages,     \* handleProcessAll: the `images` of its closure
  passI,          \* handleProcessAll: the loop index i (0-based as in the code)
  cropJob,        \* handleCrop in flight: <<>> or <<[image, cropArea]>>
  unanalyzed,     \* handleAnalyzeWithGemini: the items of `unanalyzed` still to visit
  capacityAlert,  \* an alert() of handleFileSelect has been shown
  nextId,         \* number of ids handed out so far
  quota,          \* what the user may still do: [events, ids]
  calc,           \* a call of a pure function of the utilities: [op, in, out]
  objectUrls,     \* the object URLs created and not revoked: URL -> number of them
  imageEditor,    \* ImageEditor state: [imageSize, cropArea, activeHandle, dragStart]
  completeCall    \* the arguments of the onProcessingComplete call of this render, if any

vars == <<images, processing, analyzing, editingImage, settings, passPc, passImages,
          passI, cropJob, unanalyzed, capacityAlert, nextId, quota, calc, objectUrls, imageEditor, completeCall>>

\* ---------------------------------------------------------------- constants
MAX_BATCH_SIZE == 100

\* handleProcessAll awaits processImage(images[i]) inside its for loop: one item in flight.
ConcurrencyWidth == 1

\* ------------------------------------------------------------------- bounds
MaxItems == 2         \* files selected in a behaviour of Spec
MaxUserEvents == 3    \* file selections and clicks in a behaviour of Spec
WideItems == 4        \* files selected in a behaviour of SpecWide
WideUserEvents == 3   \* file selections and clicks in a behaviour of SpecWide
MaxCapIds == 110      \* files selected in a behaviour of SpecCap
MaxDupLen == 4        \* items of a list handed to flagDuplicates in SpecDup
MaxSide == 3          \* width and height of a source canvas in SpecCrop, SpecExpand
MaxPercent == 30      \* expansion percentage in SpecExpand
ChannelStep == 15     \* distance of the channel values of a pixel in SpecEnhance
CanvasSide == 100     \* width and height of the canvas in SpecDetect
MaxTextLen == 4       \* tokens of a response text of the model in SpecEndpoint
MouseStep == 50       \* distance of the mouse positions on the canvas in SpecEditor
MaxEditorEvents == 5  \* image load, pointer events and clicks in a behaviour of SpecEditor

\* ------------------------------------------------------------------- inputs
\* File contents: a decodable image, a file the decoder rejects (img.onerror),
\* and an image whose canvas cannot be encoded (toBlob yields null).
Contents == {"imgA", "corrupt", "huge"}

Undecodable(file) == file.content = "corrupt"

Unencodable(file) == file.content = "huge"

NewFile(c) == [name |-> "original", content |-> c]

\* crypto.subtle.digest('SHA-256', bytes) as hex: one digest per content.
computeFileHash(file) ==
  CASE file.content = "imgA" -> "sha256:a1"
    [] file.content = "corrupt" -> "sha256:c0"
    [] file.content = "huge" -> "sha256:b7"

\* The FileList of one file selection: 1..n files.
FileLists(n) == UNION {[1..k -> {NewFile(c) : c \in Contents}] : k \in 1..n}

CropAreas == {<<0, 0, 10, 10>>}

SettingsChoices ==
  { [expand_before_crop |-> FALSE, expansion_percentage |-> 0,  auto_enhance |-> FALSE],
    [expand_before_crop |-> TRUE,  expansion_percentage |-> 10, auto_enhance |-> TRUE],
    [expand_before_crop |-> TRUE,  expansion_percentage |-> 0,  auto_enhance |-> FALSE],
    [expand_before_crop |-> FALSE, expansion_percentage |-> 10, auto_enhance |-> TRUE] }

\* ------------------------------------------------------------------ helpers
Undefined == "undefined"

\* prev.filter(img => img.id !== id)
WithoutId(imgs, id) == SelectSeq(imgs, LAMBDA img : img.id # id)

ExpandOp(p) == [type |-> "expand", params |-> <<p>>]

EnhanceOp == [type |-> "enhance", params |-> <<>>]

CropOp(area) == [type |-> "crop", params |-> area]

\* The item handleFileSelect creates for a file.
NewImage(id, file) ==
  [ id |-> id, file |-> file, preview |-> << <<>> >>, status |-> "pending",
    operations |-> <<>>, result |-> <<>>, error |-> Undefined,
    geminiAnalysis |-> FALSE, hash |-> Undefined, isDuplicate |-> Undefined ]

\* An object URL is told from another by the item and the blob it was created for.
PreviewUrl(image) == [kind |-> "preview", id |-> image.id, blob |-> <<>>]

ResultUrl(image) == [kind |-> "result", id |-> image.id, blob |-> image.result[1]]

\* The previews of imgs followed by the results of those that have one.
UrlsOf(imgs) ==
  [k \in 1..Len(imgs) |-> PreviewUrl(imgs[k])]
  \o LET done == SelectSeq(imgs, LAMBDA img : img.result # <<>>)
     IN [k \in 1..Len(done) |-> ResultUrl(done[k])]

NoUrls == [u \in {} |-> 0]

\* URL.createObjectURL for every blob of urls.
createObjectURL(store, urls) ==
  [u \in DOMAIN store \cup {urls[k] : k \in 1..Len(urls)} |->
     (IF u \in DOMAIN store THEN store[u] ELSE 0)
     + Cardinality({k \in 1..Len(urls) : urls[k] = u})]

\* URL.revokeObjectURL for every URL of urls; revoking a URL that is not live does nothing.
revokeObjectURL(store, urls) ==
  LET left(u) == store[u] - Cardinality({k \in 1..Len(urls) : urls[k] = u})
  IN [u \in {v \in DOMAIN store : left(v) > 0} |-> left(u)]

\* The ImageEditor as its useState hooks create it: no image loaded yet.
EditorMounted ==
  [imageSize |-> [width |-> 0, height |-> 0],
   cropArea |-> [x |-> 50, y |-> 50, width |-> 200, height |-> 200],
   activeHandle |-> "null",
   dragStart |-> [x |-> 0, y |-> 0,
                  area |-> [x |-> 50, y |-> 50, width |-> 200, height |-> 200]]]

\* No call of a utility function is under way.
NoCall == [op |-> "none", in |-> <<>>, out |-> <<>>]

\* ------------------------------------------------------------------ initial
InitWith(ids, evts) ==
  /\ images = <<>>
  /\ processing = FALSE
  /\ analyzing = FALSE
  /\ editingImage = <<>>
  /\ settings \in SettingsChoices
  /\ passPc = "idle"
  /\ passImages = <<>>
  /\ passI = 0
  /\ cropJob = <<>>
  /\ unanalyzed = <<>>
  /\ capacityAlert = FALSE
  /\ nextId = 0
  /\ quota = [events |-> evts, ids |-> ids]
  /\ calc = NoCall
  /\ objectUrls = NoUrls
  /\ imageEditor = EditorMounted
  /\ completeCall = <<>>

Init == InitWith(MaxItems, MaxUserEvents)

InitWide == InitWith(WideItems, WideUserEvents)

\* A file selection or a click: it uses up one event and `files` ids.
UserEvent(files) ==
  /\ quota.events > 0
  /\ quota.ids >= files
  /\ quota' = [events |-> quota.events - 1, ids |-> quota.ids - files]
  /\ UNCHANGED <<calc, imageEditor>>

\* Steps of the handlers in flight are no user events.
Continue == UNCHANGED <<quota, calc, imageEditor>>

\* ---------------------------------------------------------- handleFileSelect
\* Mutant of CapacityExceeded: the test looks at the batch, not at the selection.
CapacityExceeded_IgnoresSelection(n, k) == n > MAX_BATCH_SIZE

\* images.length + files.length > MAX_BATCH_SIZE
CapacityExceeded(n, k) == n + k > MAX_BATCH_SIZE

handleFileSelect(files) ==
  /\ IF CapacityExceeded(Len(images), Len(files))
     THEN /\ capacityAlert' = TRUE
          /\ UNCHANGED <<images, nextId, objectUrls>>
     ELSE /\ images' = images \o [k \in 1..Len(files) |-> NewImage(nextId + k, files[k])]
          /\ objectUrls' = createObjectURL(objectUrls,
                 [k \in 1..Len(files) |-> PreviewUrl(NewImage(nextId + k, files[k]))])
          /\ nextId' = nextId + Len(files)
          /\ UNCHANGED capacityAlert
  /\ UNCHANGED <<processing, analyzing, editingImage, settings, passPc, passImages,
                 passI, cropJob, unanalyzed>>

\* --------------------------------------------------------- handleRemoveImage
handleRemoveImage(id) ==
  /\ LET found == SelectSeq(images, LAMBDA img : img.id = id)
     IN objectUrls' = IF found = <<>> THEN objectUrls
                      ELSE revokeObjectURL(objectUrls, UrlsOf(<<found[1]>>))
  /\ images' = WithoutId(images, id)
  /\ UNCHANGED <<processing, analyzing, editingImage, settings, passPc, passImages,
                 passI, cropJob, unanalyzed, capacityAlert, nextId>>

\* ------------------------------------------------------------ handleClearAll
handleClearAll ==
  /\ objectUrls' = revokeObjectURL(objectUrls, UrlsOf(images))
  /\ images' = <<>>
  /\ UNCHANGED <<processing, analyzing, editingImage, settings, passPc, passImages,
                 passI, cropJob, unanalyzed, capacityAlert, nextId>>

\* -------------------------------------------------------------- processImage
\* Mutant of processImage: a failed encode keeps the entries logged before it.
processImage_FailureKeepsEntries(image) ==
  IF Undecodable(image.file)
  THEN [image EXCEPT !.status = "error", !.error = "Failed to load image"]
  ELSE
    LET doExpand == settings.expand_before_crop /\ settings.expansion_percentage > 0
        applied == (IF doExpand THEN <<ExpandOp(settings.expansion_percentage)>> ELSE <<>>)
                   \o (IF settings.auto_enhance THEN <<EnhanceOp>> ELSE <<>>)
    IN IF Unencodable(image.file)
       THEN [image EXCEPT !.status = "error",
                          !.error = "Failed to convert canvas to blob",
                          !.operations = image.operations \o applied]
       ELSE [image EXCEPT !.status = "completed",
                          !.result = <<applied>>,
                          !.operations = image.operations \o applied]

\* Mutant of processImage: the expand entry is logged whenever expand_before_crop is set.
processImage_LogsExpandAlways(image) ==
  IF Undecodable(image.file)
  THEN [image EXCEPT !.status = "error", !.error = "Failed to load image"]
  ELSE
    LET applied == (IF settings.expand_before_crop
                    THEN <<ExpandOp(settings.expansion_percentage)>> ELSE <<>>)
                   \o (IF settings.auto_enhance THEN <<EnhanceOp>> ELSE <<>>)
    IN IF Unencodable(image.file)
       THEN [image EXCEPT !.status = "error",
                          !.error = "Failed to convert canvas to blob"]
       ELSE [image EXCEPT !.status = "completed",
                          !.result = <<applied>>,
                          !.operations = image.operations \o applied]

\* The canvas after the transforms the settings enable, or the thrown error.
processImage(image) ==
  IF Undecodable(image.file)
  THEN [image EXCEPT !.status = "error", !.error = "Failed to load image"]
  ELSE
    LET doExpand == settings.expand_before_crop /\ settings.expansion_percentage > 0
        applied == (IF doExpand THEN <<ExpandOp(settings.expansion_percentage)>> ELSE <<>>)
                   \o (IF settings.auto_enhance THEN <<EnhanceOp>> ELSE <<>>)
    IN IF Unencodable(image.file)
       THEN [image EXCEPT !.status = "error",
                          !.error = "Failed to convert canvas to blob"]
       ELSE [image EXCEPT !.status = "completed",
                          !.result = <<applied>>,
                          !.operations = image.operations \o applied]

\* ------------------------------------------------- useEffect (onProcessingComplete)
\* images.map(img => ({id, originalFilename, newFilename, analysis, operations, ...}))
ProcessingResults(imgs) ==
  [k \in 1..Len(imgs) |->
     [id |-> imgs[k].id,
      originalFilename |-> imgs[k].file.name,
      newFilename |-> IF imgs[k].geminiAnalysis = TRUE THEN "smart" ELSE imgs[k].file.name,
      analysis |-> imgs[k].geminiAnalysis,
      operations |-> imgs[k].operations]]

\* Mutant of ProcessingIsComplete: the processing flag is not looked at.
ProcessingIsComplete_IgnoresProcessing(proc, imgs) ==
  /\ Len(imgs) > 0
  /\ \A k \in 1..Len(imgs) : imgs[k].status = "completed"

\* !processing && images.length > 0 && images.every(img => img.status === 'completed')
ProcessingIsComplete(proc, imgs) ==
  /\ ~proc
  /\ Len(imgs) > 0
  /\ \A k \in 1..Len(imgs) : imgs[k].status = "completed"

\* The effect of the render that follows a step: the callback is called with
\* the results of the batch, or not called.
useEffect ==
  completeCall' = IF ProcessingIsComplete(processing', images')
                  THEN <<[results |-> ProcessingResults(images'), images |-> images']>>
                  ELSE <<>>

\* ---------------------------------------------------------- handleProcessAll
\* prev.map((img, idx) => idx === i ? { ...img, status: 'processing' } : img)
MarkProcessing(imgs, i) ==
  [k \in 1..Len(imgs) |-> IF k = i + 1 THEN [imgs[k] EXCEPT !.status = "processing"]
                          ELSE imgs[k]]

\* Mutant of StoreProcessed: a failed item fails every item of the batch.
StoreProcessed_FailsAll(imgs, i, processed) ==
  [k \in 1..Len(imgs) |->
     IF processed.status = "error"
     THEN [imgs[k] EXCEPT !.status = "error", !.error = processed.error]
     ELSE IF k = i + 1 THEN processed ELSE imgs[k]]

\* prev.map((img, idx) => idx === i ? processed : img)
StoreProcessed(imgs, i, processed) ==
  [k \in 1..Len(imgs) |-> IF k = i + 1 THEN processed ELSE imgs[k]]

RECURSIVE NextEligible(_, _)
\* The first index >= i the loop does not `continue` over (Len(snap) if none).
NextEligible(snap, i) ==
  IF i >= Len(snap) THEN Len(snap)
  ELSE IF snap[i + 1].status = "completed" THEN NextEligible(snap, i + 1)
       ELSE i

\* The loop from index i up to the next await, or to the end of the handler.
LoopFrom(snap, i) ==
  LET j == NextEligible(snap, i) IN
  IF j < Len(snap)
  THEN /\ images' = MarkProcessing(images, j)
       /\ passPc' = "working"
       /\ passI' = j
       /\ passImages' = snap
       /\ processing' = TRUE
  ELSE /\ images' = images
       /\ passPc' = "idle"
       /\ passI' = 0
       /\ passImages' = <<>>
       /\ processing' = FALSE

\* The click on "Process All" (enabled as the button's `disabled` says).
handleProcessAll ==
  /\ passPc = "idle"
  /\ Len(images) > 0
  /\ ~processing
  /\ \E k \in 1..Len(images) : images[k].status # "completed"
  /\ LoopFrom(images, 0)
  /\ UNCHANGED <<analyzing, editingImage, settings, cropJob, unanalyzed, capacityAlert,
                 nextId,
                 objectUrls>>

\* `await processImage(images[i])` resolves; the processed item is stored.
PassStore ==
  /\ Continue
  /\ passPc = "working"
  /\ LET processed == processImage(passImages[passI + 1])
     IN /\ objectUrls' = IF processed.status = "completed"
                          THEN createObjectURL(objectUrls, <<ResultUrl(processed)>>)
                          ELSE objectUrls
        /\ images' = StoreProcessed(images, passI, processed)
  /\ passPc' = "sleeping"
  /\ UNCHANGED <<processing, analyzing, editingImage, settings, passImages, passI,
                 cropJob, unanalyzed, capacityAlert, nextId>>
  /\ useEffect

\* The 100 ms timer fires; the loop goes on.
PassResume ==
  /\ Continue
  /\ passPc = "sleeping"
  /\ LoopFrom(passImages, passI + 1)
  /\ UNCHANGED <<analyzing, editingImage, settings, cropJob, unanalyzed, capacityAlert,
                 nextId,
                 objectUrls>>
  /\ useEffect

\* ----------------------------------------------------------- handleEditImage
handleEditImage(image) ==
  /\ editingImage' = <<image>>
  /\ UNCHANGED <<images, processing, analyzing, settings, passPc, passImages, passI,
                 cropJob, unanalyzed, capacityAlert, nextId,
                 objectUrls>>

\* ---------------------------------------------------------------- handleCrop
\* The raster handleCrop builds from the file: expand, crop, enhance.
CropRaster(cropArea) ==
  (IF settings.expand_before_crop /\ settings.expansion_percentage > 0
   THEN <<ExpandOp(settings.expansion_percentage)>> ELSE <<>>)
  \o <<CropOp(cropArea)>>
  \o (IF settings.auto_enhance THEN <<EnhanceOp>> ELSE <<>>)

\* prev.map(img => img.id === editingImage.id ? {...img, status, result, operations} : img)
ApplyCrop(imgs, id, cropArea) ==
  [k \in 1..Len(imgs) |->
     IF imgs[k].id = id
     THEN [imgs[k] EXCEPT !.status = "completed",
                          !.result = <<CropRaster(cropArea)>>,
                          !.operations = Append(imgs[k].operations, CropOp(cropArea))]
     ELSE imgs[k]]

\* The editor's onCrop: handleCrop runs up to its first await.
handleCrop(cropArea) ==
  /\ editingImage # <<>>
  /\ cropJob = <<>>
  /\ cropJob' = <<[image |-> editingImage[1], cropArea |-> cropArea]>>
  /\ UNCHANGED <<images, processing, analyzing, editingImage, settings, passPc,
                 passImages, passI, unanalyzed, capacityAlert, nextId,
                 objectUrls>>

\* Decode and encode have settled: the crop is stored, or the error is logged.
CropStore ==
  /\ Continue
  /\ cropJob # <<>>
  /\ LET job == cropJob[1] IN
     IF Undecodable(job.image.file) \/ Unencodable(job.image.file)
     THEN UNCHANGED <<images, editingImage, objectUrls>>
     ELSE /\ objectUrls' = createObjectURL(objectUrls,
                 <<[kind |-> "result", id |-> job.image.id,
                    blob |-> CropRaster(job.cropArea)]>>)
          /\ images' = ApplyCrop(images, job.image.id, job.cropArea)
          /\ editingImage' = <<>>
  /\ cropJob' = <<>>
  /\ UNCHANGED <<processing, analyzing, settings, passPc, passImages, passI, unanalyzed,
                 capacityAlert, nextId>>
  /\ useEffect

\* --------------------------------------------------- handleAnalyzeWithGemini
\* Mutant of ApplyAnalysis: the analysed item is marked completed.
ApplyAnalysis_SetsStatus(imgs, image) ==
  [k \in 1..Len(imgs) |->
     IF imgs[k].id = image.id
     THEN [imgs[k] EXCEPT !.geminiAnalysis = TRUE,
                          !.status = "completed",
                          !.file = [image.file EXCEPT !.name = "smart"]]
     ELSE imgs[k]]

\* prev.map(img => img.id === image.id ? {...img, geminiAnalysis, ebayData, file} : img)
ApplyAnalysis(imgs, image) ==
  [k \in 1..Len(imgs) |->
     IF imgs[k].id = image.id
     THEN [imgs[k] EXCEPT !.geminiAnalysis = TRUE,
                          !.file = [image.file EXCEPT !.name = "smart"]]
     ELSE imgs[k]]

\* images.filter(img => !img.geminiAnalysis)
Unanalyzed(imgs) == SelectSeq(imgs, LAMBDA img : ~img.geminiAnalysis)

\* The click on "Analyze" (enabled as the button's `disabled` says).
handleAnalyzeWithGemini ==
  /\ Len(images) > 0
  /\ ~analyzing
  /\ Unanalyzed(images) # <<>>
  /\ unanalyzed' = Unanalyzed(images)
  /\ analyzing' = TRUE
  /\ UNCHANGED <<images, processing, editingImage, settings, passPc, passImages, passI,
                 cropJob, capacityAlert, nextId,
                 objectUrls>>

\* Mutant of AnalyzeOne: a failed call marks its item `error` and ends the pass.
AnalyzeOne_FailureAborts(ok) ==
  /\ analyzing
  /\ unanalyzed # <<>>
  /\ images' = IF ok THEN ApplyAnalysis(images, Head(unanalyzed))
                ELSE [k \in 1..Len(images) |->
                        IF images[k].id = Head(unanalyzed).id
                        THEN [images[k] EXCEPT !.status = "error"] ELSE images[k]]
  /\ unanalyzed' = IF ok THEN Tail(unanalyzed) ELSE <<>>
  /\ analyzing' = (unanalyzed' # <<>>)
  /\ UNCHANGED <<processing, editingImage, settings, passPc, passImages, passI, cropJob,
                 capacityAlert, nextId,
                 objectUrls>>

\* One turn of the loop: the remote call for the head of `unanalyzed` settles.
AnalyzeOne(ok) ==
  /\ analyzing
  /\ unanalyzed # <<>>
  /\ images' = IF ok THEN ApplyAnalysis(images, Head(unanalyzed)) ELSE images
  /\ unanalyzed' = Tail(unanalyzed)
  /\ analyzing' = (Tail(unanalyzed) # <<>>)
  /\ UNCHANGED <<processing, editingImage, settings, passPc, passImages, passI, cropJob,
                 capacityAlert, nextId,
                 objectUrls>>

\* -------------------------------------------------------------- user events
SelectFiles ==
  /\ \E files \in FileLists(quota.ids) : UserEvent(Len(files)) /\ handleFileSelect(files)
  /\ useEffect

ClickRemove ==
  /\ UserEvent(0)
  /\ \E k \in 1..Len(images) : handleRemoveImage(images[k].id)
  /\ useEffect

ClickClearAll ==
  /\ UserEvent(0)
  /\ Len(images) > 0
  /\ handleClearAll
  /\ useEffect

ClickProcessAll ==
  /\ UserEvent(0)
  /\ handleProcessAll
  /\ useEffect

ClickEdit ==
  /\ UserEvent(0)
  /\ \E k \in 1..Len(images) : ~images[k].geminiAnalysis /\ handleEditImage(images[k])
  /\ useEffect

ClickCrop ==
  /\ Continue
  /\ \E cropArea \in CropAreas : handleCrop(cropArea)
  /\ useEffect

ClickAnalyze ==
  /\ UserEvent(0)
  /\ handleAnalyzeWithGemini
  /\ useEffect

AnalysisSettles ==
  /\ Continue
  /\ \E ok \in BOOLEAN : AnalyzeOne(ok)
  /\ useEffect

Next ==
  \/ SelectFiles
  \/ ClickRemove
  \/ ClickClearAll
  \/ ClickProcessAll
  \/ PassStore
  \/ PassResume
  \/ ClickEdit
  \/ ClickCrop
  \/ CropStore
  \/ ClickAnalyze
  \/ AnalysisSettles

Spec == Init /\ [][Next]_vars

SpecWide == InitWide /\ [][Next]_vars

\* ------------------------------------------------- the batch at its capacity
\* File selections of many files at once, removal of the first item and clear:
\* the steps that change the size of the batch, up to and beyond the cap.
InitCap == InitWith(MaxCapIds, 0)

CapAddSizes == {1, 49, 50}

CapSelectFiles ==
  /\ \E k \in CapAddSizes :
       /\ quota.ids >= k
       /\ quota' = [quota EXCEPT !.ids = quota.ids - k]
       /\ UNCHANGED <<calc, imageEditor>>
       /\ handleFileSelect([j \in 1..k |-> NewFile("imgA")])
  /\ useEffect

CapRemoveFirst ==
  /\ Len(images) > 0
  /\ Continue
  /\ handleRemoveImage(images[1].id)
  /\ useEffect

CapClearAll ==
  /\ Len(images) > 0
  /\ Continue
  /\ handleClearAll
  /\ useEffect

NextCap == CapSelectFiles \/ CapRemoveFirst \/ CapClearAll

SpecCap == InitCap /\ [][NextCap]_vars

\* ==================================================== the utility functions
\* The component state while a utility function is exercised on its own.
componentVars == <<images, processing, analyzing, editingImage, settings, passPc,
                   passImages, passI, cropJob, unanalyzed, capacityAlert, nextId,
                   objectUrls>>

batchVars == <<componentVars, quota>>

ComponentIdle ==
  /\ images = <<>>
  /\ processing = FALSE
  /\ analyzing = FALSE
  /\ editingImage = <<>>
  /\ settings = [expand_before_crop |-> FALSE, expansion_percentage |-> 0,
                 auto_enhance |-> FALSE]
  /\ passPc = "idle"
  /\ passImages = <<>>
  /\ passI = 0
  /\ cropJob = <<>>
  /\ unanalyzed = <<>>
  /\ capacityAlert = FALSE
  /\ nextId = 0
  /\ objectUrls = NoUrls

BatchIdle ==
  /\ ComponentIdle
  /\ quota = [events |-> 0, ids |-> 0]
  /\ imageEditor = EditorMounted
  /\ completeCall = <<>>

\* ------------------------------------------------------------ flagDuplicates
\* Mutant of flagFrom: the hash of a first occurrence is not recorded.
RECURSIVE flagFrom_NothingSeen(_, _)
flagFrom_NothingSeen(imgs, seenHashes) ==
  IF imgs = <<>> THEN <<>>
  ELSE LET img == Head(imgs) IN
       IF img.hash = Undefined THEN <<img>> \o flagFrom_NothingSeen(Tail(imgs), seenHashes)
       ELSE <<[img EXCEPT !.isDuplicate = "false"]>>
            \o flagFrom_NothingSeen(Tail(imgs), seenHashes)

\* Mutant of flagFrom: an item that is flagged already is returned as it is.
RECURSIVE flagFrom_KeepsFlag(_, _)
flagFrom_KeepsFlag(imgs, seenHashes) ==
  IF imgs = <<>> THEN <<>>
  ELSE LET img == Head(imgs) IN
       IF img.hash = Undefined \/ img.isDuplicate = "true"
       THEN <<img>> \o flagFrom_KeepsFlag(Tail(imgs), seenHashes \cup {img.hash})
       ELSE IF img.hash \in seenHashes
       THEN <<[img EXCEPT !.isDuplicate = "true"]>>
            \o flagFrom_KeepsFlag(Tail(imgs), seenHashes)
       ELSE <<[img EXCEPT !.isDuplicate = "false"]>>
            \o flagFrom_KeepsFlag(Tail(imgs), seenHashes \cup {img.hash})

\* images.map(img => ...) from the head of imgs on, with the seenHashes so far.
RECURSIVE flagFrom(_, _)
flagFrom(imgs, seenHashes) ==
  IF imgs = <<>> THEN <<>>
  ELSE LET img == Head(imgs) IN
       IF img.hash = Undefined THEN <<img>> \o flagFrom(Tail(imgs), seenHashes)
       ELSE IF img.hash \in seenHashes
       THEN <<[img EXCEPT !.isDuplicate = "true"]>> \o flagFrom(Tail(imgs), seenHashes)
       ELSE <<[img EXCEPT !.isDuplicate = "false"]>>
            \o flagFrom(Tail(imgs), seenHashes \cup {img.hash})

flagDuplicates(imgs) == flagFrom(imgs, {})

\* Lists of up to n items: a hash or none, and any earlier flag.
DupLists(n) ==
  UNION { [1..k -> [hash : {"sha256:a1", "sha256:b7", Undefined},
                    isDuplicate : {Undefined, "true", "false"}]] : k \in 0..n }

\* The items of a list get their position as id.
WithIds(list) ==
  [k \in 1..Len(list) |->
     [id |-> k, hash |-> list[k].hash, isDuplicate |-> list[k].isDuplicate]]

\* images.filter((_, idx) => idx !== j - 1)
RemoveAt(imgs, j) == SubSeq(imgs, 1, j - 1) \o SubSeq(imgs, j + 1, Len(imgs))

InitDup ==
  /\ BatchIdle
  /\ \E list \in DupLists(MaxDupLen) :
       calc = [op |-> "list", in |-> WithIds(list), out |-> <<>>]

\* flagDuplicates is called on the list.
CallFlagDuplicates ==
  /\ calc.op = "list"
  /\ calc' = [op |-> "flagged", in |-> calc.in, out |-> flagDuplicates(calc.in)]
  /\ UNCHANGED <<batchVars, imageEditor, completeCall>>

\* One item is removed from the flagged list and flagDuplicates is called again.
RemoveAndReflag ==
  /\ calc.op = "flagged"
  /\ \E j \in 1..Len(calc.out) :
       LET rest == RemoveAt(calc.out, j) IN
       calc' = [op |-> "reflagged", in |-> rest, out |-> flagDuplicates(rest)]
  /\ UNCHANGED <<batchVars, imageEditor, completeCall>>

NextDup == CallFlagDuplicates \/ RemoveAndReflag

SpecDup == InitDup /\ [][NextDup]_vars

\* ----------------------------------------------------------------- cropImage
\* A canvas is its width, its height and its pixels; a pixel drawn from the
\* source is named by its position in the source.
Transparent == <<-1, -1>>

White == <<-2, -2>>

SourceCanvas(w, h) ==
  [width |-> w, height |-> h,
   pixels |-> [q \in (0..(w - 1)) \X (0..(h - 1)) |-> q]]

\* A canvas of the size of cropArea; drawImage copies the part of the rectangle
\* that lies in the source and leaves the rest of the new canvas transparent.
cropImage(sourceCanvas, cropArea) ==
  [error |-> Undefined,
   canvas |-> <<[width |-> cropArea.width, height |-> cropArea.height,
                 pixels |-> [q \in (0..(cropArea.width - 1)) \X (0..(cropArea.height - 1)) |->
                    LET sx == cropArea.x + q[1]
                        sy == cropArea.y + q[2]
                    IN IF /\ sx >= 0 /\ sx < sourceCanvas.width
                          /\ sy >= 0 /\ sy < sourceCanvas.height
                       THEN sourceCanvas.pixels[<<sx, sy>>]
                       ELSE Transparent]]>>]

\* Rectangles in and around a source of up to n x n pixels.
CropRects(n) == [x : -1..n, y : -1..n, width : 1..(n + 1), height : 1..(n + 1)]

InitCrop ==
  /\ BatchIdle
  /\ \E w \in 1..MaxSide, h \in 1..MaxSide, cropArea \in CropRects(MaxSide) :
       calc = [op |-> "cropArea", in |-> [source |-> SourceCanvas(w, h), cropArea |-> cropArea],
               out |-> <<>>]

CallCropImage ==
  /\ calc.op = "cropArea"
  /\ calc' = [op |-> "cropImage", in |-> calc.in,
               out |-> cropImage(calc.in.source, calc.in.cropArea)]
  /\ UNCHANGED <<batchVars, imageEditor, completeCall>>

NextCrop == CallCropImage

SpecCrop == InitCrop /\ [][NextCrop]_vars

\* --------------------------------------------------------------- expandImage
\* A pixel that drawImage at a fractional offset blends from its neighbours.
Blended == <<-3, -3>>

\* Mutant of expandImage: a border of one pixel is added on every side, whatever
\* the percentage.
expandImage_AlwaysBorder(sourceCanvas, percentage) ==
  LET w == sourceCanvas.width
      h == sourceCanvas.height
      W == ((w * (100 + percentage)) \div 100) + 2
      H == ((h * (100 + percentage)) \div 100) + 2
  IN [canvas |-> [width |-> W, height |-> H,
                  pixels |-> [q \in (0..(W - 1)) \X (0..(H - 1)) |->
                     IF /\ q[1] >= 1 /\ q[1] <= w /\ q[2] >= 1 /\ q[2] <= h
                     THEN sourceCanvas.pixels[<<q[1] - 1, q[2] - 1>>] ELSE White]],
      offset2 |-> <<W - w, H - h>>]

\* expandRatio = 1 + percentage / 100.  The assignment of width * expandRatio to
\* canvas.width drops the fraction (for the sizes of this model the product in
\* doubles truncates to the exact quotient; from 25 * 1.16 = 28.999999999999996
\* on it may fall below an integral product).  The offsets are kept in half
\* pixels: offset2 = <<2 * offsetX, 2 * offsetY>>.  The canvas is filled white
\* and the source drawn at the offset.
expandImage(sourceCanvas, percentage) ==
  LET w == sourceCanvas.width
      h == sourceCanvas.height
      W == (w * (100 + percentage)) \div 100
      H == (h * (100 + percentage)) \div 100
      ox2 == W - w
      oy2 == H - h
  IN [canvas |-> [width |-> W, height |-> H,
                  pixels |-> [q \in (0..(W - 1)) \X (0..(H - 1)) |->
                     IF ox2 % 2 = 0 /\ oy2 % 2 = 0
                     THEN LET sx == q[1] - (ox2 \div 2)
                              sy == q[2] - (oy2 \div 2)
                          IN IF sx >= 0 /\ sx < w /\ sy >= 0 /\ sy < h
                             THEN sourceCanvas.pixels[<<sx, sy>>] ELSE White
                     ELSE IF /\ 2 * q[1] + 2 > ox2 /\ 2 * q[1] < ox2 + 2 * w
                             /\ 2 * q[2] + 2 > oy2 /\ 2 * q[2] < oy2 + 2 * h
                          THEN Blended ELSE White]],
      offset2 |-> <<ox2, oy2>>]

InitExpand ==
  /\ BatchIdle
  /\ \E w \in 1..MaxSide, h \in 1..MaxSide, percentage \in 0..MaxPercent :
       calc = [op |-> "percentage",
               in |-> [source |-> SourceCanvas(w, h), percentage |-> percentage],
               out |-> <<>>]

CallExpandImage ==
  /\ calc.op = "percentage"
  /\ calc' = [op |-> "expandImage", in |-> calc.in,
               out |-> expandImage(calc.in.source, calc.in.percentage)]
  /\ UNCHANGED <<batchVars, imageEditor, completeCall>>

NextExpand == CallExpandImage

SpecExpand == InitExpand /\ [][NextExpand]_vars

\* -------------------------------------------------------------- enhanceImage
\* The factors in hundredths and the gray weights in ten-thousandths, so that
\* the arithmetic of the code is done on integers.
brightness == 110

contrast == 115

saturation == 120

rW == 2989

gW == 5870

bW == 1140

\* Math.max(lo, Math.min(hi, v))
Clamp(v, lo, hi) == IF v < lo THEN lo ELSE IF v > hi THEN hi ELSE v

\* The store into a Uint8Array: the fraction is dropped, the integer taken modulo 256.
\* v is in ten-thousandths.
ToUint8(v) == (IF v >= 0 THEN v \div 10000 ELSE -((-v) \div 10000)) % 256

\* bcLUT[i]: val = i * brightness; val = ((val - 128) * contrast) + 128, clamped, stored.
bcLUT ==
  [i \in 0..255 |->
     ToUint8(Clamp(((i * brightness - 12800) * contrast) + 1280000, 0, 2550000))]

\* The store into the Uint8ClampedArray of the image data: clamped to 0..255 and
\* rounded to the nearest integer.  v is in millionths.  The code computes v in
\* doubles, whose error (below 1e-12) decides the rounding where v lies exactly
\* between two integers: there either neighbour may be stored.
ToUint8Clamped(v) ==
  LET c == Clamp(v, 0, 255000000)
      q == c \div 1000000
      rem == c % 1000000
  IN IF 2 * rem < 1000000 THEN {q}
     ELSE IF 2 * rem > 1000000 THEN {q + 1}
     ELSE {q, q + 1}

\* Mutant of enhanceChannel: the value is neither clamped nor stored in a typed array.
enhanceChannel_Raw(gray, newC) ==
  LET v == gray * (100 - saturation) + newC * saturation * 10000
  IN {IF v >= 0 THEN v \div 1000000 ELSE -((-v) \div 1000000)}

\* data[i] = Math.max(0, Math.min(255, gray * satConst + newC * saturation));
\* gray is in ten-thousandths, satConst = 1 - saturation.
enhanceChannel(gray, newC) ==
  ToUint8Clamped(Clamp(gray * (100 - saturation) + newC * saturation * 10000,
                       0, 255000000))

\* The pixels enhanceImage may write for the pixel <<r, g, b>>.
enhancePixel(rgb) ==
  LET newR == bcLUT[rgb[1]]
      newG == bcLUT[rgb[2]]
      newB == bcLUT[rgb[3]]
      gray == rW * newR + gW * newG + bW * newB
  IN { <<r, g, b>> : r \in enhanceChannel(gray, newR),
                     g \in enhanceChannel(gray, newG),
                     b \in enhanceChannel(gray, newB) }

\* The enhanceImage without lookup table.  newC = ((c * brightness) - 128) *
\* contrast + 128, in two-hundredths: (c * 110 - 12800) * 115 / 10000 + 128.
directBC(c) == ((c * brightness - 12800) * contrast + 1280000) \div 50

\* data[i] = Math.max(0, Math.min(255, gray + (newC - gray) * saturation)), stored
\* in the Uint8ClampedArray.  newC is in two-hundredths and gray in two-millionths;
\* the value is whole + fraction / 10000000 with 0 <= fraction < 10000000.  Where it
\* lies exactly between two integers the rounding error of the doubles decides.
directChannel(gray, newC) ==
  LET thousandths == (saturation * newC) \div 20 - ((saturation - 100) * (gray \div 10000)) \div 20
      rest == ((saturation - 100) * (gray % 10000)) \div 20
      fraction == ((thousandths % 1000) * 10000 - rest) % 10000000
      whole == (thousandths \div 1000) - (IF (thousandths % 1000) * 10000 < rest THEN 1 ELSE 0)
  IN IF whole < 0 THEN {0}
     ELSE IF whole >= 255 THEN {255}
     ELSE IF 2 * fraction < 10000000 THEN {whole}
     ELSE IF 2 * fraction > 10000000 THEN {whole + 1}
     ELSE {whole, whole + 1}

\* The pixels the enhanceImage without lookup table may write for <<r, g, b>>.
enhancePixelDirect(rgb) ==
  LET newR == directBC(rgb[1])
      newG == directBC(rgb[2])
      newB == directBC(rgb[3])
      gray == rW * newR + gW * newG + bW * newB
  IN { <<r, g, b>> : r \in directChannel(gray, newR),
                     g \in directChannel(gray, newG),
                     b \in directChannel(gray, newB) }

\* Channel values at a distance of step, with both extremes.
Levels(step) == {v \in 0..255 : v % step = 0} \cup {255}

InitEnhance ==
  /\ BatchIdle
  /\ \E r \in Levels(ChannelStep), g \in Levels(ChannelStep), b \in Levels(ChannelStep) :
       calc = [op |-> "pixel", in |-> <<r, g, b>>, out |-> <<>>]

CallEnhanceImage ==
  /\ calc.op = "pixel"
  /\ \E out \in enhancePixel(calc.in) :
       calc' = [op |-> "enhanceImage", in |-> calc.in, out |-> out]
  /\ UNCHANGED <<batchVars, imageEditor, completeCall>>

NextEnhance == CallEnhanceImage

SpecEnhance == InitEnhance /\ [][NextEnhance]_vars

\* --------------------------------------------------------- autoDetectObjects
gridSize == 10

\* A white canvas with one rectangle of one colour painted on it.
Scene(side, x, y, w, h, colour) ==
  [width |-> side, height |-> side,
   rect |-> [x |-> x, y |-> y, width |-> w, height |-> h], colour |-> colour]

\* data[i], data[i + 1], data[i + 2] of the pixel at p.
PixelAt(image, p) ==
  IF /\ p[1] >= image.rect.x /\ p[1] < image.rect.x + image.rect.width
     /\ p[2] >= image.rect.y /\ p[2] < image.rect.y + image.rect.height
  THEN image.colour ELSE <<255, 255, 255>>

\* binary[idx] = avg < 200 ? 1 : 0, with avg = (r + g + b) / 3
binary(image, p) ==
  LET rgb == PixelAt(image, p) IN IF rgb[1] + rgb[2] + rgb[3] < 3 * 200 THEN 1 ELSE 0

\* The points the two for loops visit.
GridPoints(image) ==
  { <<gridSize * i, gridSize * j>> :
      i \in 0..((image.width - 1) \div gridSize), j \in 0..((image.height - 1) \div gridSize) }

\* The neighbours of p that lie in the canvas.
Neighbors(image, p) ==
  { n \in { <<p[1] + gridSize, p[2]>>, <<p[1] - gridSize, p[2]>>,
            <<p[1], p[2] + gridSize>>, <<p[1], p[2] - gridSize>> } :
      n[1] >= 0 /\ n[1] < image.width /\ n[2] >= 0 /\ n[2] < image.height }

\* The while loop: the points visited once the stack is empty.
RECURSIVE Fill(_, _, _)
Fill(image, stack, visited) ==
  IF stack = {} THEN visited
  ELSE LET pushed == { n \in UNION { Neighbors(image, p) : p \in stack } :
                         binary(image, n) = 1 /\ n \notin visited }
       IN Fill(image, pushed, visited \cup pushed)

\* Mutant of IsNoise: no blob is dropped.
IsNoise_Never(w, h) == FALSE

\* if (w > 50 && h > 50) { areas.push(...) }: other blobs are dropped as noise.
IsNoise(w, h) == ~(w > 50 /\ h > 50)

Min(a, b) == IF a < b THEN a ELSE b

Max(a, b) == IF a > b THEN a ELSE b

\* The areas pushed for the blob, a set of grid points.
BlobAreas(image, blob) ==
  LET minX == CHOOSE v \in {p[1] : p \in blob} : \A p \in blob : v <= p[1]
      maxX == CHOOSE v \in {p[1] : p \in blob} : \A p \in blob : v >= p[1]
      minY == CHOOSE v \in {p[2] : p \in blob} : \A p \in blob : v <= p[2]
      maxY == CHOOSE v \in {p[2] : p \in blob} : \A p \in blob : v >= p[2]
      w == maxX - minX
      h == maxY - minY
  IN IF IsNoise(w, h) THEN <<>>
     ELSE <<[x |-> Max(0, minX - 10), y |-> Max(0, minY - 10),
             width |-> Min(image.width - minX, w + 20),
             height |-> Min(image.height - minY, h + 20)]>>

\* The two for loops from the first dark grid point not yet visited on (the
\* one with the least idx = y * width + x among those of unvisited).
RECURSIVE ScanFrom(_, _, _)
ScanFrom(image, unvisited, areas) ==
  IF unvisited = {} THEN areas
  ELSE LET start == CHOOSE p \in unvisited :
                      \A q \in unvisited :
                        p[2] * image.width + p[1] <= q[2] * image.width + q[1]
           blob == Fill(image, {start}, (GridPoints(image) \ unvisited) \cup {start})
                     \cap unvisited
       IN ScanFrom(image, unvisited \ blob, areas \o BlobAreas(image, blob))

autoDetectObjects(image) ==
  ScanFrom(image, {p \in GridPoints(image) : binary(image, p) = 1}, <<>>)

\* Black, just below the threshold, at the threshold.
RectColours == {<<0, 0, 0>>, <<199, 200, 200>>, <<200, 200, 200>>}

InitDetect ==
  /\ BatchIdle
  /\ \E x \in {0, 20, 40, 45}, y \in {0, 20, 40, 45},
        w \in {20, 60, 70, 80}, h \in {20, 60, 70, 80}, colour \in RectColours :
       calc = [op |-> "canvas", in |-> Scene(CanvasSide, x, y, w, h, colour), out |-> <<>>]

CallAutoDetectObjects ==
  /\ calc.op = "canvas"
  /\ calc' = [op |-> "autoDetectObjects", in |-> calc.in,
               out |-> autoDetectObjects(calc.in)]
  /\ UNCHANGED <<batchVars, imageEditor, completeCall>>

NextDetect == CallAutoDetectObjects

SpecDetect == InitDetect /\ [][NextDetect]_vars

\* ------------------------------------- analyze-image-gemini (edge function)
\* A response text is a sequence of tokens: an opening brace, a closing brace,
\* the well-formed members of an analysis ("fields") and any other text ("prose").
Tokens == {"{", "}", "fields", "prose"}

Texts(n) == UNION {[1..k -> Tokens] : k \in 0..n}

\* let analysis = { description: "", objects: [], categories: [], colors: [], confidence: 0 }
EmptyAnalysis ==
  [description |-> <<>>, objects |-> <<>>, categories |-> <<>>, colors |-> <<>>,
   confidence |-> 0]

\* The object the well-formed members denote.
FieldsAnalysis ==
  [description |-> <<"fields">>, objects |-> <<"object">>, categories |-> <<"category">>,
   colors |-> <<"color">>, confidence |-> 95]

\* responseText.match(/\{[\s\S]*\}/): from the first opening brace to the last
\* closing brace after it; <<>> if there is none (null).
jsonMatch(responseText) ==
  LET opens == {k \in 1..Len(responseText) : responseText[k] = "{"}
      first == CHOOSE k \in opens : \A j \in opens : k <= j
      closes == {k \in 1..Len(responseText) : responseText[k] = "}" /\ k > first}
      last == CHOOSE k \in closes : \A j \in closes : k >= j
  IN IF opens = {} \/ closes = {} THEN <<>>
     ELSE <<SubSeq(responseText, first, last)>>

\* JSON.parse of a matched text: <<object>>, or <<>> when it throws.
JSONparse(text) ==
  IF text = <<"{", "}">> THEN << [f \in {} |-> <<>>] >>
  ELSE IF text = <<"{", "fields", "}">> THEN <<FieldsAnalysis>>
  ELSE <<>>

\* try { if (jsonMatch) analysis = JSON.parse(jsonMatch[0]) }
\* catch (parseError) { analysis.description = responseText }
parseResponseText(responseText) ==
  IF jsonMatch(responseText) = <<>> THEN EmptyAnalysis
  ELSE IF JSONparse(jsonMatch(responseText)[1]) = <<>>
       THEN [EmptyAnalysis EXCEPT !.description = responseText]
       ELSE JSONparse(jsonMatch(responseText)[1])[1]

\* The handler from the answer of the model on: geminiResponse = [ok, status,
\* candidates], candidates being <<>> or <<responseText>>.
analyzeImageGemini(geminiResponse) ==
  IF ~geminiResponse.ok
  THEN [status |-> geminiResponse.status,
        body |-> [error |-> "Failed to analyze image with Gemini"]]
  ELSE [status |-> 200,
        body |-> IF geminiResponse.candidates # <<>> /\ geminiResponse.candidates[1] # <<>>
                 THEN parseResponseText(geminiResponse.candidates[1])
                 ELSE EmptyAnalysis]

GeminiResponses ==
  {[ok |-> FALSE, status |-> 500, candidates |-> <<>>],
   [ok |-> TRUE, status |-> 200, candidates |-> <<>>]}
  \cup {[ok |-> TRUE, status |-> 200, candidates |-> <<text>>] : text \in Texts(MaxTextLen)}

InitEndpoint ==
  /\ BatchIdle
  /\ \E geminiResponse \in GeminiResponses :
       calc = [op |-> "geminiResponse", in |-> geminiResponse, out |-> <<>>]

CallEndpoint ==
  /\ calc.op = "geminiResponse"
  /\ calc' = [op |-> "analyze-image-gemini", in |-> calc.in,
               out |-> analyzeImageGemini(calc.in)]
  /\ UNCHANGED <<batchVars, imageEditor, completeCall>>

NextEndpoint == CallEndpoint

SpecEndpoint == InitEndpoint /\ [][NextEndpoint]_vars

\* --------------------------------------------------------------- ImageEditor
Abs(v) == IF v < 0 THEN -v ELSE v

\* getHandleAt(x, y): the handle under the pointer, with hs = 20.
getHandleAt(x, y) ==
  LET ax == imageEditor.cropArea.x
      ay == imageEditor.cropArea.y
      aw == imageEditor.cropArea.width
      ah == imageEditor.cropArea.height
      nearX(v) == Abs(x - v) < 20
      nearY(v) == Abs(y - v) < 20
      nearMidX == Abs(2 * x - (2 * ax + aw)) < 2 * 20
      nearMidY == Abs(2 * y - (2 * ay + ah)) < 2 * 20
  IN IF nearX(ax) /\ nearY(ay) THEN "tl"
     ELSE IF nearX(ax + aw) /\ nearY(ay) THEN "tr"
     ELSE IF nearX(ax) /\ nearY(ay + ah) THEN "bl"
     ELSE IF nearX(ax + aw) /\ nearY(ay + ah) THEN "br"
     ELSE IF nearMidX /\ nearY(ay) THEN "t"
     ELSE IF nearMidX /\ nearY(ay + ah) THEN "b"
     ELSE IF nearX(ax) /\ nearMidY THEN "l"
     ELSE IF nearX(ax + aw) /\ nearMidY THEN "r"
     ELSE IF x > ax /\ x < ax + aw /\ y > ay /\ y < ay + ah THEN "move"
     ELSE "null"

\* The area handleMouseMove sets for the pointer at (x, y).
DraggedArea(x, y) ==
  LET start == imageEditor.dragStart.area
      size == imageEditor.imageSize
      dx == x - imageEditor.dragStart.x
      dy == y - imageEditor.dragStart.y
      left == Max(0, Min(start.x + dx, start.x + start.width - 20))
      top == Max(0, Min(start.y + dy, start.y + start.height - 20))
      right == Max(20, Min(start.width + dx, size.width - start.x))
      bottom == Max(20, Min(start.height + dy, size.height - start.y))
      fromLeft == [x |-> left, width |-> start.width - (left - start.x)]
      fromTop == [y |-> top, height |-> start.height - (top - start.y)]
      h == imageEditor.activeHandle
  IN CASE h = "move" ->
            [start EXCEPT !.x = Max(0, Min(start.x + dx, size.width - start.width)),
                          !.y = Max(0, Min(start.y + dy, size.height - start.height))]
       [] h = "tl" -> [x |-> fromLeft.x, y |-> fromTop.y,
                       width |-> fromLeft.width, height |-> fromTop.height]
       [] h = "br" -> [start EXCEPT !.width = right, !.height = bottom]
       [] h = "tr" -> [start EXCEPT !.y = fromTop.y, !.width = right,
                                    !.height = fromTop.height]
       [] h = "bl" -> [start EXCEPT !.x = fromLeft.x, !.width = fromLeft.width,
                                    !.height = bottom]
       [] h = "t" -> [start EXCEPT !.y = fromTop.y, !.height = fromTop.height]
       [] h = "b" -> [start EXCEPT !.height = bottom]
       [] h = "l" -> [start EXCEPT !.x = fromLeft.x, !.width = fromLeft.width]
       [] h = "r" -> [start EXCEPT !.width = right]

\* The display sizes of the images opened (none wider than 800 or higher than
\* 600, so that the canvas has the size of the image).
DisplaySizes == {[width |-> 100, height |-> 100], [width |-> 300, height |-> 300]}

\* The pointer positions on the canvas.
Pointer(size) ==
  {<<i * MouseStep, j * MouseStep>> :
     i \in 0..(size.width \div MouseStep), j \in 0..(size.height \div MouseStep)}

\* The bounding boxes [x1, y1, x2, y2] the analysis may answer a magic crop with.
BoundingBoxes == {<<0, 0, 100, 100>>, <<50, 50, 400, 400>>}

EditorLoaded == imageEditor.imageSize.width > 0

\* One more event in the editor, of the MaxEditorEvents of a behaviour.
EditorEvent ==
  /\ quota.events > 0
  /\ quota' = [quota EXCEPT !.events = @ - 1]
  /\ UNCHANGED <<componentVars, calc, completeCall>>

\* img.onload and the sizing effect: the canvas takes the display size.
EditorLoadImage ==
  /\ ~EditorLoaded
  /\ \E size \in DisplaySizes : imageEditor' = [imageEditor EXCEPT !.imageSize = size]
  /\ EditorEvent

EditorMouseDown ==
  /\ EditorLoaded
  /\ \E p \in Pointer(imageEditor.imageSize) :
       /\ getHandleAt(p[1], p[2]) # "null"
       /\ imageEditor' = [imageEditor EXCEPT
             !.activeHandle = getHandleAt(p[1], p[2]),
             !.dragStart = [x |-> p[1], y |-> p[2], area |-> imageEditor.cropArea]]
  /\ EditorEvent

EditorMouseMove ==
  /\ imageEditor.activeHandle # "null"
  /\ \E p \in Pointer(imageEditor.imageSize) :
       imageEditor' = [imageEditor EXCEPT !.cropArea = DraggedArea(p[1], p[2])]
  /\ EditorEvent

\* onMouseUp, onMouseLeave
EditorMouseUp ==
  /\ imageEditor.activeHandle # "null"
  /\ imageEditor' = [imageEditor EXCEPT !.activeHandle = "null"]
  /\ EditorEvent

\* handleMagicCrop with an answer that carries a bounding box (scaleX = scaleY = 1).
EditorMagicCrop ==
  /\ EditorLoaded
  /\ \E box \in BoundingBoxes :
       imageEditor' = [imageEditor EXCEPT
         !.cropArea = [x |-> box[1], y |-> box[2],
                       width |-> box[3] - box[1], height |-> box[4] - box[2]]]
  /\ EditorEvent

\* handleResize(direction, delta) of the editor with width and height controls.
handleResize(direction, delta) ==
  LET area == imageEditor.cropArea
      size == imageEditor.imageSize
  IN imageEditor' = [imageEditor EXCEPT !.cropArea =
       IF direction = "width"
       THEN [area EXCEPT !.width = Max(50, Min(area.width + delta, size.width - area.x))]
       ELSE [area EXCEPT !.height = Max(50, Min(area.height + delta, size.height - area.y))]]

EditorResize ==
  /\ EditorLoaded
  /\ imageEditor.activeHandle = "null"
  /\ \E direction \in {"width", "height"}, delta \in {-50, 50} : handleResize(direction, delta)
  /\ EditorEvent

InitEditor ==
  /\ ComponentIdle
  /\ quota = [events |-> MaxEditorEvents, ids |-> 0]
  /\ imageEditor = EditorMounted
  /\ completeCall = <<>>
  /\ calc = NoCall

NextEditor ==
  \/ EditorLoadImage
  \/ EditorMouseDown
  \/ EditorMouseMove
  \/ EditorMouseUp
  \/ EditorMagicCrop
  \/ EditorResize

SpecEditor == InitEditor /\ [][NextEditor]_vars

\* =================================================================== claims
IsPrefix(s, t) == Len(s) <= Len(t) /\ SubSeq(t, 1, Len(s)) = s

Ids(imgs) == {imgs[k].id : k \in 1..Len(imgs)}

ProcessingCount == Cardinality({k \in 1..Len(images) : images[k].status = "processing"})

Fails(file) == Undecodable(file) \/ Unencodable(file)

\* A step of the transform pass / the step that stores an editor crop.
PassStep == passPc' # passPc

CropStoreStep == cropJob # <<>> /\ cropJob' = <<>>

\* C1: during a transform pass never more items are `processing` than the
\* concurrency width of the pass.
C1_AtMostWidthProcessing == ProcessingCount <= ConcurrencyWidth

\* The chunk (0-based) of the eligible snapshot item at index i: eligible items
\* are dispatched in consecutive groups of ConcurrencyWidth.
ChunkOf(snap, i) ==
  Cardinality({j \in 0..(i - 1) : snap[j + 1].status # "completed"}) \div ConcurrencyWidth

\* C2: while the work of an item of chunk N+1 is in flight, every item of an
\* earlier chunk that is still in the batch has settled to completed or error.
C2_ChunkSettlesBeforeNext ==
  passPc = "working" =>
    \A j \in 0..(passI - 1) : \A k \in 1..Len(images) :
      ( /\ passImages[j + 1].status # "completed"
        /\ ChunkOf(passImages, j) < ChunkOf(passImages, passI)
        /\ images[k].id = passImages[j + 1].id )
      => images[k].status \in {"completed", "error"}

\* C3: a failure is recorded on the failing item only, the pass goes on, and the
\* terminal status of an item depends on its own file alone: `error` exactly for
\* the files whose work fails, whatever the other items of the batch did.
C3_FailureIsolated ==
  /\ [](\A k \in 1..Len(images) :
          /\ images[k].status = "error" =>
               Fails(images[k].file) /\ images[k].error # Undefined
          /\ images[k].status = "completed" => ~Fails(images[k].file))
  /\ [][ (passPc = "working" /\ PassStep) =>
           /\ passPc' = "sleeping"
           /\ processing'
           /\ Len(images') = Len(images)
           /\ \A k \in 1..Len(images) : k # passI + 1 => images'[k] = images[k] ]_vars

\* C3 witness: a pass has ended with one item failed and another completed.
C3_Witness ==
  /\ passPc = "idle"
  /\ \E k, m \in 1..Len(images) :
       /\ images[k].status = "error"
       /\ images[m].status = "completed"
       /\ images[m].operations = images[m].result[1]

\* C4: once the pass has ended, no item of the batch is left `processing`.
C4_PassEndsSettled ==
  (passPc = "idle" /\ ~processing) =>
    \A k \in 1..Len(images) : images[k].status # "processing"

StatusEdges ==
  { <<"pending", "processing">>, <<"processing", "completed">>, <<"processing", "error">> }

StatusKept ==
  \A m \in 1..Len(images') :
    \/ \E k \in 1..Len(images) :
         images[k].id = images'[m].id /\ images[k].status = images'[m].status
    \/ images'[m].id \notin Ids(images) /\ images'[m].status = "pending"

\* The statuses the next batch holds at positions whose status differs.
StatusesWritten ==
  { images'[m].status : m \in {n \in 1..Len(images') :
                                 n > Len(images) \/ images'[n].status # images[n].status} }

C6_LogAppendOnly ==
  [][ \A k \in 1..Len(images) : \A m \in 1..Len(images') :
        images[k].id = images'[m].id
        => IsPrefix(images[k].operations, images'[m].operations) ]_vars

\* C7: the operation log of an item with a result lists exactly the transforms
\* applied to the raster of that result, in the order applied.
C7_LogIsAppliedTransforms ==
  \A k \in 1..Len(images) :
    images[k].result # <<>> => images[k].operations = images[k].result[1]

\* The files a step selects (a file selection uses up that many ids).
FilesSelected == quota.ids - quota'.ids

\* C8: the batch never holds more than MAX_BATCH_SIZE items, and a selection of
\* k files that would exceed the cap creates no item and leaves the batch as
\* it is, while any other selection appends its k files.
C8_CapacityRejectsWholeAdd ==
  /\ [](Len(images) <= MAX_BATCH_SIZE)
  /\ [][ FilesSelected > 0 =>
           IF Len(images) + FilesSelected > MAX_BATCH_SIZE
           THEN images' = images /\ nextId' = nextId /\ capacityAlert'
           ELSE /\ Len(images') = Len(images) + FilesSelected
                /\ SubSeq(images', 1, Len(images)) = images ]_vars

\* C8 witness: a selection has been rejected at a batch filled to the cap.
C8_Witness == capacityAlert /\ Len(images) = MAX_BATCH_SIZE

\* C9: no two items of the batch share an id.
C9_IdsUnique ==
  \A k, m \in 1..Len(images) : images[k].id = images[m].id => k = m

\* C10: every item carries the hash of its file, and it is flagged a duplicate
\* exactly when an earlier item of the batch has the same hash.
C10_HashAndDuplicateFlags ==
  \A k \in 1..Len(images) :
    /\ images[k].hash = computeFileHash(images[k].file)
    /\ images[k].isDuplicate =
         (IF \E j \in 1..(k - 1) :
               computeFileHash(images[j].file) = computeFileHash(images[k].file)
          THEN "true" ELSE "false")

\* The flag the scan owes the item at position k of list.
ExpectedFlag(list, k) ==
  IF \E j \in 1..(k - 1) : list[j].hash = list[k].hash THEN "true" ELSE "false"

Flagged == calc.op \in {"flagged", "reflagged"}

\* C11 as claimed: every item of the result is flagged false if no earlier item
\* has its hash and true otherwise.
C11_EveryItemFlagged ==
  Flagged => \A k \in 1..Len(calc.in) :
               calc.out[k].isDuplicate = ExpectedFlag(calc.in, k)

\* C11 amended: every item that carries a hash is flagged false if no earlier
\* item has its hash and true otherwise; an item without a hash is returned as
\* it is; ids, hashes and order are those of the input.
C11_HashedItemsFlagged ==
  Flagged =>
    /\ Len(calc.out) = Len(calc.in)
    /\ \A k \in 1..Len(calc.in) :
         IF calc.in[k].hash = Undefined
         THEN calc.out[k] = calc.in[k]
         ELSE calc.out[k] = [calc.in[k] EXCEPT !.isDuplicate = ExpectedFlag(calc.in, k)]

\* C11 witness: the hashes [A, A, B, A] have been flagged [false, true, false, true].
C11_Witness ==
  /\ calc.op = "flagged"
  /\ [k \in 1..Len(calc.in) |-> calc.in[k].hash]
       = <<"sha256:a1", "sha256:a1", "sha256:b7", "sha256:a1">>
  /\ [k \in 1..Len(calc.out) |-> calc.out[k].isDuplicate]
       = <<"false", "true", "false", "true">>

\* The list with every earlier flag wiped.
Unflagged(list) == [k \in 1..Len(list) |-> [list[k] EXCEPT !.isDuplicate = Undefined]]

AnalysisStep == analyzing /\ unanalyzed # <<>> /\ unanalyzed' # unanalyzed

\* A turn of the analysis loop whose call failed: its item is in the batch and
\* is left without an analysis result.
AnalysisFailed ==
  /\ AnalysisStep
  /\ \E k \in 1..Len(images) : images[k].id = Head(unanalyzed).id
  /\ \E k \in 1..Len(images') :
       images'[k].id = Head(unanalyzed).id /\ ~images'[k].geminiAnalysis

\* C13: a failed analysis call leaves status, result and operation log of every
\* item as they were, its item stays without an analysis result, and the pass
\* goes on with the remaining items of its snapshot.
C13_AnalysisFailureKeepsItem ==
  [][AnalysisFailed =>
       /\ Len(images') = Len(images)
       /\ \A k \in 1..Len(images) :
            /\ images'[k].id = images[k].id
            /\ images'[k].status = images[k].status
            /\ images'[k].result = images[k].result
            /\ images'[k].error = images[k].error
            /\ images'[k].operations = images[k].operations
            /\ images'[k].geminiAnalysis = images[k].geminiAnalysis
       /\ unanalyzed' = Tail(unanalyzed)
       /\ analyzing' = (Tail(unanalyzed) # <<>>)]_vars

\* C13 witness: the pass is over; the call for the first item failed (the item
\* is as it was selected) and the call for the second item, made after it, succeeded.
C13_Witness ==
  /\ ~analyzing
  /\ Len(images) = 2
  /\ images[1].status = "pending" /\ ~images[1].geminiAnalysis
  /\ images[1].operations = <<>> /\ images[1].result = <<>>
  /\ images[2].status = "pending" /\ images[2].geminiAnalysis

\* The step in which the in-flight transform of the pass completes.
PassCompletion == passPc = "working" /\ passPc' = "sleeping"

\* C14: when the transform of an item that is no longer in the batch (removed,
\* or dropped by a clear) completes, the batch is left as it is: no item is
\* added, replaced or modified.
C14_LateCompletionIsNoOp ==
  [][(PassCompletion /\ passImages[passI + 1].id \notin Ids(images))
       => images' = images]_vars

\* C15: once no transform is in flight, every object URL that is still live
\* (created for a preview, a pass result or a crop result and not revoked)
\* belongs to an item of the batch.
C15_UrlsReleasedWithItem ==
  (passPc = "idle" /\ cropJob = <<>>)
    => \A u \in DOMAIN objectUrls : u.id \in Ids(images)

\* The rectangle lies in the source.
Contained(cropArea, sourceCanvas) ==
  /\ cropArea.x >= 0 /\ cropArea.y >= 0
  /\ cropArea.x + cropArea.width <= sourceCanvas.width
  /\ cropArea.y + cropArea.height <= sourceCanvas.height

\* C16: cropImage on a rectangle that is not contained in the source fails with
\* OutOfBounds and returns no canvas.
C16_CropOutOfBoundsFails ==
  (calc.op = "cropImage" /\ ~Contained(calc.in.cropArea, calc.in.source))
    => (calc.out.error = "OutOfBounds" /\ calc.out.canvas = <<>>)

\* C17: every colour channel enhanceImage writes for a pixel with channels in
\* 0..255 is in 0..255, and so is every entry of the brightness/contrast table.
C17_EnhanceStaysInRange ==
  calc.op = "enhanceImage" =>
    /\ \A c \in 1..3 : calc.out[c] \in 0..255
    /\ \A i \in 0..255 : bcLUT[i] \in 0..255

\* C17 witness: the pixel (255, 0, 0), whose red would leave the range above
\* (290.76) and whose green and blue below (-15.24), was enhanced to (255, 0, 0).
C17_Witness ==
  /\ calc.op = "enhanceImage"
  /\ calc.in = <<255, 0, 0>>
  /\ calc.out = <<255, 0, 0>>

\* n / d rounded to the nearest integer (n >= 0, d > 0).
Round(n, d) == (2 * n + d) \div (2 * d)

\* C18: the canvas expandImage returns for a w x h source and a percentage p is
\* round(w(1 + p/100)) wide and round(h(1 + p/100)) high, and the source is
\* drawn at half the width delta, half the height delta.
C18_ExpandRoundsDimensions ==
  calc.op = "expandImage" =>
    LET w == calc.in.source.width
        h == calc.in.source.height
        p == calc.in.percentage
    IN /\ calc.out.canvas.width = Round(w * (100 + p), 100)
       /\ calc.out.canvas.height = Round(h * (100 + p), 100)
       /\ calc.out.offset2 = <<calc.out.canvas.width - w, calc.out.canvas.height - h>>

Within(a, b, tolerance) == a - b <= tolerance /\ b - a <= tolerance

\* The detector was run on a canvas of 100 x 100 with a black square of the
\* given side at (x, y).
DetectedSquare(x, y, side) ==
  /\ calc.op = "autoDetectObjects"
  /\ calc.in = Scene(100, x, y, side, side, <<0, 0, 0>>)

\* C20 as claimed: for the 20 x 20 black square at (40, 40) the detector
\* returns exactly one rectangle, {x: 30, y: 30, width: 40, height: 40} within 10.
C20_SmallSquareDetected ==
  DetectedSquare(40, 40, 20) =>
    /\ Len(calc.out) = 1
    /\ Within(calc.out[1].x, 30, 10) /\ Within(calc.out[1].y, 30, 10)
    /\ Within(calc.out[1].width, 40, 10) /\ Within(calc.out[1].height, 40, 10)

\* C20 amended: for the 20 x 20 black square at (40, 40) the detector returns
\* no rectangle (a blob that spans no more than 50 px between grid points is
\* dropped); for a 70 x 70 black square at (20, 20) it returns exactly one
\* rectangle, {x: 10, y: 10, width: 90, height: 90} within 10.
C20_OnlyLargeSquareDetected ==
  /\ DetectedSquare(40, 40, 20) => calc.out = <<>>
  /\ DetectedSquare(20, 20, 70) =>
       /\ Len(calc.out) = 1
       /\ Within(calc.out[1].x, 10, 10) /\ Within(calc.out[1].y, 10, 10)
       /\ Within(calc.out[1].width, 90, 10) /\ Within(calc.out[1].height, 90, 10)

\* C20 witness: the detector was run on the 20 x 20 square and returned nothing.
C20_Witness == DetectedSquare(40, 40, 20) /\ calc.out = <<>>

\* The grid points of the one blob of the scene.
BlobPoints(image) == {p \in GridPoints(image) : binary(image, p) = 1}

\* C21: every rectangle the detector returns lies in the canvas and contains
\* every grid point of its blob.
C21_AreaClampedAroundBlob ==
  calc.op = "autoDetectObjects" =>
    \A k \in 1..Len(calc.out) :
      LET area == calc.out[k] IN
      /\ area.x >= 0 /\ area.y >= 0
      /\ area.x + area.width <= calc.in.width
      /\ area.y + area.height <= calc.in.height
      /\ \A p \in BlobPoints(calc.in) :
           /\ area.x <= p[1] /\ p[1] < area.x + area.width
           /\ area.y <= p[2] /\ p[2] < area.y + area.height

\* The endpoint answered a response text that is not a structured analysis.
AnsweredUnparsed ==
  /\ calc.op = "analyze-image-gemini"
  /\ calc.in.ok /\ calc.in.candidates # <<>>
  /\ ~(\E k, j \in 1..Len(calc.in.candidates[1]) :
         SubSeq(calc.in.candidates[1], k, j) = <<"{", "fields", "}">>)

\* C22: for a response text that holds no structured analysis the endpoint
\* answers with status 200 and the empty analysis whose description is the text.
C22_UnparsedTextKept ==
  AnsweredUnparsed =>
    /\ calc.out.status = 200
    /\ calc.out.body = [EmptyAnalysis EXCEPT !.description = calc.in.candidates[1]]

\* C23: a step of the transform pass leaves every item that is `completed`
\* as it is: same place, status, result and operation log.
C23_PassLeavesCompleted ==
  [][PassStep =>
       \A k \in 1..Len(images) :
         images[k].status = "completed" =>
           /\ k <= Len(images')
           /\ images'[k].id = images[k].id
           /\ images'[k].status = "completed"
           /\ images'[k].result = images[k].result
           /\ images'[k].operations = images[k].operations]_vars

\* The entries a pass owes the log of an item it completes.
ExpectedEntries ==
  (IF settings.expand_before_crop /\ settings.expansion_percentage > 0
   THEN <<[type |-> "expand", params |-> <<settings.expansion_percentage>>]>> ELSE <<>>)
  \o (IF settings.auto_enhance THEN <<[type |-> "enhance", params |-> <<>>]>> ELSE <<>>)

\* C24: the item a pass stores as `completed` has the log of the item the pass
\* took, followed by an expand entry with the configured percentage iff
\* expand_before_crop is set and the percentage is positive, followed by an
\* enhance entry iff auto_enhance is set, and nothing else.
C24_PassAppendsAppliedEntries ==
  [][(/\ PassCompletion
      /\ passI + 1 <= Len(images')
      /\ images'[passI + 1].status = "completed")
       => images'[passI + 1].operations
            = passImages[passI + 1].operations \o ExpectedEntries]_vars

\* C24 witness: with expansion by 10 percent and enhancement configured, the
\* pass has completed an item whose log is expand(10), enhance.
C24_Witness ==
  /\ passPc = "sleeping"
  /\ settings.expand_before_crop /\ settings.auto_enhance
  /\ Len(images) >= 1
  /\ images[1].status = "completed"
  /\ images[1].operations = <<ExpandOp(10), EnhanceOp>>

C26_EditorCropAreaInCanvas ==
  EditorLoaded =>
    /\ imageEditor.cropArea.x >= 0 /\ imageEditor.cropArea.y >= 0
    /\ imageEditor.cropArea.x + imageEditor.cropArea.width <= imageEditor.imageSize.width
    /\ imageEditor.cropArea.y + imageEditor.cropArea.height <= imageEditor.imageSize.height

\* The ids of a list in its order.
IdsInOrder(imgs) == [k \in 1..Len(imgs) |-> imgs[k].id]

\* C27: every write of the pass replaces an item by one with the same id: a
\* step of the pass leaves the ids of the batch and their order as they are.
C27_PassWritesSameItem ==
  [][PassStep => IdsInOrder(images') = IdsInOrder(images)]_vars

\* The item carries a crop result and the crop's log entry.
HasCrop(image) ==
  /\ image.result # <<>>
  /\ \E n \in 1..Len(image.operations) : image.operations[n].type = "crop"

\* C28: an item that has an analysis result, or a crop result with its log
\* entry, still has them after every step that leaves it in the batch.
C28_UpdatesSurvivePass ==
  [][ \A k \in 1..Len(images) : \A m \in 1..Len(images') :
        images[k].id = images'[m].id
        => /\ images[k].geminiAnalysis = TRUE => images'[m].geminiAnalysis = TRUE
           /\ HasCrop(images[k]) => HasCrop(images'[m]) ]_vars

\* C29: the pixel enhanceImage writes with its lookup table is the pixel the
\* formula without lookup table (one clamp, at the end) writes.
C29_LookupTableMatchesFormula ==
  calc.op = "enhanceImage" => calc.out \in enhancePixelDirect(calc.in)

\* C30: onProcessingComplete is called only when no pass is running, the batch
\* is not empty and every item is completed; its results are one entry per item
\* of the batch, in the batch's order, with the item's id and operation log.
C30_CompleteCallOnlyWhenDone ==
  completeCall # <<>> =>
    /\ passPc = "idle" /\ ~processing
    /\ Len(images) > 0
    /\ \A k \in 1..Len(images) : images[k].status = "completed"
    /\ Len(completeCall[1].results) = Len(images)
    /\ \A k \in 1..Len(images) :
         /\ completeCall[1].results[k].id = images[k].id
         /\ completeCall[1].results[k].operations = images[k].operations

\* C30 witness: the callback was called for a batch of two completed items, the
\* first of them with a log that is not empty.
C30_Witness ==
  /\ completeCall # <<>>
  /\ Len(completeCall[1].results) = 2
  /\ completeCall[1].results[1].operations # <<>>
  /\ completeCall[1].results[2].id # completeCall[1].results[1].id

====
